---- MODULE Spec2Model ----
(***************************************************************************)
(* KeycloakApiClient (keycloak_api_client/api_client.py) as a state        *)
(* machine.  One client instance is used by the callers of Threads.  Each  *)
(* network call of the client is two steps of its caller: the request is   *)
(* sent (appended to the caller's log), then the server's response, an     *)
(* arbitrary status and a well-formed JSON body of the endpoint's shape,   *)
(* is received and handled by the code that follows the call.              *)
(*                                                                         *)
(* Python values: None is the string "None"; Optional results and lists    *)
(* are sequences (None is <<>>, a value v is <<v>>); dicts are records.    *)
(***************************************************************************)
EXTENDS Integers, Sequences, FiniteSets, TLC

VARIABLES
    admin_user_access_token, \* the instance's cached admin token
    pc,                      \* per caller: where it stands in its call
    call,                    \* per caller: the public operation and its arguments
    stage,                   \* per caller: the request being prepared or in flight
    i,                       \* per caller: index in federated_identities (reconciler loop)
    keycloak_identities,     \* per caller: providers of the fetched identities
    keycloak_id,             \* per caller: id of the user the call works on
    log,                     \* per caller: the requests of its current call, in order
    result,                  \* per caller: outcome of its last call
    status_code,             \* per caller: status of the last response it received
    response_json,           \* per caller: JSON body of that response, <<>> when not read
    auth_calls,              \* public calls that reached the authorization step
    token_requests,          \* password-grant requests sent by the instance
    token_responses          \* statuses of the password-grant responses, in order

vars == <<admin_user_access_token, pc, call, stage, i, keycloak_identities,
          keycloak_id, log, result, status_code, response_json, auth_calls,
          token_requests, token_responses>>

----------------------------------------------------------------------------
(* Bounds *)

MaxCalls == 2
MaxLinks == 2
MaxCandidates == 2

----------------------------------------------------------------------------
(* Values *)

None == "None"
Threads == {1, 2}
Tokens == {"tok1", "tok2"}
Statuses == {200, 302, 401, 404, 500}
NOT_FOUND == 404
BcryptIterations == 12
NoStatus == 0
UUIDs == {"U1", "U2"}
Providers == {"google", "facebook"}
RequestedEmails == {"a@x.com", "b@x.com"}

RECURSIVE SeqsUpTo(_, _)
SeqsUpTo(S, n) ==
    IF n = 0 THEN {<<>>}
    ELSE LET shorter == SeqsUpTo(S, n - 1)
         IN  shorter \cup {Append(s, x) : s \in {q \in shorter : Len(q) = n - 1}, x \in S}

\* KeycloakFederatedIdentity values a caller may supply
Links ==
    { [provider_name |-> "google",   user_id |-> "1", user_name |-> "g1"],
      [provider_name |-> "facebook", user_id |-> "2", user_name |-> "f2"] }

AllWriteUsers(ids) ==
    [ keycloak_id : ids,
      username : {"u"}, first_name : {"f"}, last_name : {"l"}, email : {"a@x.com"},
      enabled : {TRUE}, email_verified : {FALSE}, attributes : {[locale |-> "en"]},
      raw_password : {None, "", "secret"},
      hashed_password : {None, "", "h"},
      federated_identities : SeqsUpTo(Links, MaxLinks) ]

\* WriteKeycloakUser values a caller may supply
\* (every password pair without links, every list of links with one password pair)
WriteUsers(ids) ==
    { u \in AllWriteUsers(ids) :
        \/ u.federated_identities = <<>>
        \/ u.raw_password = None /\ u.hashed_password = "h" }

\* user records of the users endpoints' JSON: two users with the same email,
\* one whose email differs in case only, one with another email
UserRecords ==
    { [id |-> "U1", email |-> "a@x.com"], [id |-> "U2", email |-> "a@x.com"],
      [id |-> "U1", email |-> "A@x.com"], [id |-> "U2", email |-> "b@x.com"] }
UserLists == SeqsUpTo(UserRecords, MaxCandidates)

\* bodies of the federated-identity endpoint: a list of identity dicts
IdentityBodies == { {[identityProvider |-> p] : p \in ps} : ps \in SUBSET Providers }

NoCall == [name |-> "none", email |-> None, keycloak_id |-> None, query |-> None, user |-> <<>>]

----------------------------------------------------------------------------
(* Pure parts of the client *)

\* truth value of an Optional[str]: None and "" are false
Truthy(s) == s /= None /\ s /= ""

\* variants of ResponseOk: only 2xx counts as success; every response counts
ResponseOk2xx(status) == 200 =< status /\ status < 300
ResponseOkAlways(status) == TRUE

\* requests.Response.ok: False exactly for 400 <= status_code < 600
ResponseOk(status) == ~(400 =< status /\ status < 600)

_get_authorization_header(token) == "Bearer " \o token

\* variant of _get_user_endpoint_schema_data: the hashed password is tested first
SchemaDataHashedFirst(write_keycloak_user) ==
    LET data == [ username      |-> write_keycloak_user.username,
                  firstName     |-> write_keycloak_user.first_name,
                  lastName      |-> write_keycloak_user.last_name,
                  email         |-> write_keycloak_user.email,
                  enabled       |-> write_keycloak_user.enabled,
                  emailVerified |-> write_keycloak_user.email_verified,
                  attributes    |-> write_keycloak_user.attributes ]
    IN  IF Truthy(write_keycloak_user.hashed_password)
        THEN data @@ [credentials |-> << [ hashedSaltedValue |-> write_keycloak_user.hashed_password,
                                           algorithm         |-> "bcrypt",
                                           hashIterations    |-> 12,
                                           type              |-> "password",
                                           temporary         |-> FALSE ] >>]
        ELSE IF Truthy(write_keycloak_user.raw_password)
        THEN data @@ [credentials |-> << [ type      |-> "password",
                                           value     |-> write_keycloak_user.raw_password,
                                           temporary |-> FALSE ] >>]
        ELSE data

_get_user_endpoint_schema_data(write_keycloak_user) ==
    LET data == [ username      |-> write_keycloak_user.username,
                  firstName     |-> write_keycloak_user.first_name,
                  lastName      |-> write_keycloak_user.last_name,
                  email         |-> write_keycloak_user.email,
                  enabled       |-> write_keycloak_user.enabled,
                  emailVerified |-> write_keycloak_user.email_verified,
                  attributes    |-> write_keycloak_user.attributes ]
    IN  IF Truthy(write_keycloak_user.raw_password)
        THEN data @@ [credentials |-> << [ type      |-> "password",
                                           value     |-> write_keycloak_user.raw_password,
                                           temporary |-> FALSE ] >>]
        ELSE IF Truthy(write_keycloak_user.hashed_password)
        THEN data @@ [credentials |-> << [ hashedSaltedValue |-> write_keycloak_user.hashed_password,
                                           algorithm         |-> "bcrypt",
                                           hashIterations    |-> BcryptIterations,
                                           type              |-> "password",
                                           temporary         |-> FALSE ] >>]
        ELSE data

\* variant of EmailMatches: the comparison ignores case
Lower(email) == IF email = "A@x.com" THEN "a@x.com" ELSE email
EmailMatchesIgnoreCase(user, email) == Lower(user.email) = Lower(email)

\* the candidate filter of _get_user_by_email: the loop returns at the first
\* user whose email equals the requested one, and falls off the end otherwise
EmailMatches(user, email) == user.email = email

RECURSIVE _get_user_by_email(_, _)
_get_user_by_email(users, email) ==
    IF Len(users) = 0 THEN <<>>
    ELSE IF EmailMatches(Head(users), email) THEN <<Head(users)>>
    ELSE _get_user_by_email(Tail(users), email)

\* read_keycloak_user_factory: a field rename of a user endpoint record
read_keycloak_user_factory(user_endpoint_data) ==
    [keycloak_id |-> user_endpoint_data.id, email |-> user_endpoint_data.email]

\* variant of ProviderPresent: every desired link is upserted
ProviderPresentAlways(identity, identities) == TRUE

\* the test of the reconciler's loop body: `identity.provider_name in keycloak_identities`
ProviderPresent(identity, identities) == identity.provider_name \in identities

\* the next index >= from whose link passes the loop's test, Len+1 when none
RECURSIVE NextUpsert(_, _, _)
NextUpsert(federated_identities, identities, from) ==
    IF from > Len(federated_identities) THEN from
    ELSE IF ProviderPresent(federated_identities[from], identities) THEN from
    ELSE NextUpsert(federated_identities, identities, from + 1)

----------------------------------------------------------------------------
(* Outcomes and requests *)

Pending == [outcome |-> "pending", value |-> <<>>, msg |-> ""]
Returned(v) == [outcome |-> "returned", value |-> v, msg |-> ""]
\* raise KeycloakApiClientException(msg ...)
Raised(m) == [outcome |-> "raised", value |-> <<>>, msg |-> m]

UsageMsg == "Invalid get user call. Email or Keycloak Id has to be specified."

ErrorMsg(st) ==
    CASE st = "users_email" -> "Error while retrieving user with email"
      [] st = "user_id"     -> "Error while retrieving user with id"
      [] st = "create"      -> "Error while creating user"
      [] st = "update"      -> "Error while updating user"
      [] st = "identities"  -> "Error while retrieving identities of user"
      [] st = "upsert"      -> "Error while creating identity for user"
      [] st = "exchange"    -> "Error while obtaining user tokens"
      [] st = "search"      -> "Error while retrieving users with query"
      [] st = "token"       -> "Error while obtaining api-admin access_token"

\* the request the caller is about to send, given the admin token it obtained
Request(t, token) ==
    CASE stage[t] = "users_email" ->
            [kind |-> "users_email", auth |-> _get_authorization_header(token),
             email |-> call[t].email]
      [] stage[t] = "user_id" ->
            [kind |-> "user_id", auth |-> _get_authorization_header(token),
             id |-> call[t].keycloak_id]
      [] stage[t] = "search" ->
            [kind |-> "search", auth |-> _get_authorization_header(token),
             query |-> call[t].query]
      [] stage[t] = "create" ->
            [kind |-> "create", auth |-> _get_authorization_header(token),
             data |-> _get_user_endpoint_schema_data(call[t].user[1])]
      [] stage[t] = "update" ->
            [kind |-> "update", auth |-> _get_authorization_header(token),
             id |-> call[t].user[1].keycloak_id,
             data |-> _get_user_endpoint_schema_data(call[t].user[1])]
      [] stage[t] = "identities" ->
            [kind |-> "identities", auth |-> _get_authorization_header(token),
             id |-> keycloak_id[t]]
      [] stage[t] = "upsert" ->
            LET identity == call[t].user[1].federated_identities[i[t]]
            IN  [kind |-> "upsert", auth |-> _get_authorization_header(token),
                 id |-> keycloak_id[t],
                 provider |-> identity.provider_name,
                 data |-> [identityProvider |-> identity.provider_name,
                           userId |-> identity.user_id,
                           userName |-> identity.user_name]]
      [] stage[t] = "exchange" ->
            [kind |-> "exchange", subject_token |-> token,
             requested_subject |-> call[t].keycloak_id]

TokenRequest == [kind |-> "token", grant_type |-> "password"]

----------------------------------------------------------------------------
(* Initial state: a fresh instance, no caller active *)

Init ==
    /\ admin_user_access_token = None
    /\ pc = [t \in Threads |-> "idle"]
    /\ call = [t \in Threads |-> NoCall]
    /\ stage = [t \in Threads |-> "none"]
    /\ i = [t \in Threads |-> 0]
    /\ keycloak_identities = [t \in Threads |-> {}]
    /\ keycloak_id = [t \in Threads |-> None]
    /\ log = [t \in Threads |-> <<>>]
    /\ result = [t \in Threads |-> Pending]
    /\ status_code = [t \in Threads |-> NoStatus]
    /\ response_json = [t \in Threads |-> <<>>]
    /\ auth_calls = 0
    /\ token_requests = 0
    /\ token_responses = <<>>

----------------------------------------------------------------------------
(* Input domains.  Every caller draws its arguments, and every response its  *)
(* body, from a domain D; the two specifications differ only in D and in the *)
(* callers that are active.                                                  *)

SeqDomain ==
    [ emails     |-> RequestedEmails \cup {None, ""},
      ids        |-> UUIDs \cup {None},
      users      |-> WriteUsers({None}),
      updates    |-> WriteUsers({"U1"}),
      queries    |-> {"a"},
      user_records |-> UserRecords,
      user_lists |-> UserLists,
      new_ids    |-> UUIDs ]

ConcDomain ==
    [ emails     |-> {None, "a@x.com"},
      ids        |-> {None, "U1"},
      users      |-> {u \in WriteUsers({None}) :
                        /\ u.raw_password = None /\ u.hashed_password = "h"
                        /\ Len(u.federated_identities) = 1
                        /\ u.federated_identities[1].provider_name = "google"},
      updates    |-> {u \in WriteUsers({"U1"}) :
                        /\ u.raw_password = "secret" /\ u.hashed_password = None
                        /\ u.federated_identities = <<>>},
      queries    |-> {"a"},
      user_records |-> {[id |-> "U1", email |-> "a@x.com"]},
      user_lists |-> {<<>>, <<[id |-> "U1", email |-> "a@x.com"]>>},
      new_ids    |-> {"U2"} ]

----------------------------------------------------------------------------
(* Public operations: the code up to the first authorization step *)

\* a call that needs the admin token starts: its first request is `st`
Begin(t, c, st, kid) ==
    /\ auth_calls < MaxCalls
    /\ call' = [call EXCEPT ![t] = c]
    /\ stage' = [stage EXCEPT ![t] = st]
    /\ pc' = [pc EXCEPT ![t] = "auth"]
    /\ i' = [i EXCEPT ![t] = 0]
    /\ keycloak_identities' = [keycloak_identities EXCEPT ![t] = {}]
    /\ keycloak_id' = [keycloak_id EXCEPT ![t] = kid]
    /\ log' = [log EXCEPT ![t] = <<>>]
    /\ result' = [result EXCEPT ![t] = Pending]
    /\ status_code' = [status_code EXCEPT ![t] = NoStatus]
    /\ response_json' = [response_json EXCEPT ![t] = <<>>]
    /\ auth_calls' = auth_calls + 1
    /\ UNCHANGED <<admin_user_access_token, token_requests, token_responses>>

\* variant of GetUserBranch: the arguments are tested against None only
GetUserBranchIsNone(email, id) ==
    IF email /= None THEN "users_email"
    ELSE IF id /= None THEN "user_id"
    ELSE "raise"

\* the branch get_keycloak_user takes: `if email: ... elif keycloak_id: ... else: raise`
GetUserBranch(email, id) ==
    IF Truthy(email) THEN "users_email"
    ELSE IF id /= None THEN "user_id"
    ELSE "raise"

get_keycloak_user(t, D) ==
    /\ pc[t] = "idle"
    /\ \E email \in D.emails, id \in D.ids :
        LET c == [NoCall EXCEPT !.name = "get_keycloak_user", !.email = email,
                                !.keycloak_id = id]
            branch == GetUserBranch(email, id)
        IN  IF branch = "raise"
            THEN /\ call' = [call EXCEPT ![t] = c]
                 /\ stage' = [stage EXCEPT ![t] = "none"]
                 /\ log' = [log EXCEPT ![t] = <<>>]
                 /\ result' = [result EXCEPT ![t] = Raised(UsageMsg)]
                 /\ status_code' = [status_code EXCEPT ![t] = NoStatus]
                 /\ response_json' = [response_json EXCEPT ![t] = <<>>]
                 /\ UNCHANGED <<admin_user_access_token, pc, i, keycloak_identities,
                                keycloak_id, auth_calls, token_requests, token_responses>>
            ELSE Begin(t, c, branch, None)

register_user(t, D) ==
    /\ pc[t] = "idle"
    /\ \E write_keycloak_user \in D.users :
        Begin(t, [NoCall EXCEPT !.name = "register_user", !.user = <<write_keycloak_user>>],
              "create", None)

update_user(t, D) ==
    /\ pc[t] = "idle"
    /\ \E write_keycloak_user \in D.updates :
        Begin(t, [NoCall EXCEPT !.name = "update_user", !.user = <<write_keycloak_user>>],
              "update", write_keycloak_user.keycloak_id)

get_user_tokens(t, D) ==
    /\ pc[t] = "idle"
    /\ \E id \in D.ids \ {None} :
        Begin(t, [NoCall EXCEPT !.name = "get_user_tokens", !.keycloak_id = id],
              "exchange", None)

search_users(t, D) ==
    /\ pc[t] = "idle"
    /\ \E query \in D.queries :
        Begin(t, [NoCall EXCEPT !.name = "search_users", !.query = query], "search", None)

----------------------------------------------------------------------------
(* _get_api_admin_oidc_token *)

\* variant of TokenCached: the cache is never used
TokenCachedNever(token) == FALSE

\* `if self.admin_user_access_token:` the cached value is returned
TokenCached(token) == Truthy(token)

\* the caller has the response: its status, and the body the code reads from it
Received(t, status, json) ==
    /\ status_code' = [status_code EXCEPT ![t] = status]
    /\ response_json' = [response_json EXCEPT ![t] = IF ResponseOk(status) THEN json ELSE <<>>]

\* the caller sends the request of its stage with the token it got
Send(t, token) ==
    /\ log' = [log EXCEPT ![t] = Append(@, Request(t, token))]
    /\ pc' = [pc EXCEPT ![t] = "wait"]

\* the cache is read; a hit sends the stage's request with the cached token,
\* a miss sends the password-grant request
_get_api_admin_oidc_token(t) ==
    /\ pc[t] = "auth"
    /\ IF TokenCached(admin_user_access_token)
       THEN /\ Send(t, admin_user_access_token)
            /\ UNCHANGED token_requests
       ELSE /\ log' = [log EXCEPT ![t] = Append(@, TokenRequest)]
            /\ pc' = [pc EXCEPT ![t] = "token_wait"]
            /\ token_requests' = token_requests + 1
    /\ UNCHANGED <<admin_user_access_token, call, stage, i, keycloak_identities,
                   keycloak_id, result, status_code, response_json, auth_calls,
                   token_responses>>

\* the password-grant response: an error raises, a success is stored
TokenResponse(t) ==
    /\ pc[t] = "token_wait"
    /\ \E status \in Statuses, access_token \in Tokens :
        /\ Received(t, status, [access_token |-> access_token])
        /\ token_responses' = Append(token_responses, status)
        /\ IF ~ResponseOk(status)
           THEN /\ result' = [result EXCEPT ![t] = Raised(ErrorMsg("token"))]
                /\ pc' = [pc EXCEPT ![t] = "idle"]
                /\ UNCHANGED admin_user_access_token
           ELSE /\ admin_user_access_token' = access_token
                /\ pc' = [pc EXCEPT ![t] = "token_ret"]
                /\ UNCHANGED result
    /\ UNCHANGED <<call, stage, i, keycloak_identities, keycloak_id, log, auth_calls,
                   token_requests>>

\* `return self.admin_user_access_token`: the attribute is read again
TokenReturn(t) ==
    /\ pc[t] = "token_ret"
    /\ Send(t, admin_user_access_token)
    /\ UNCHANGED <<admin_user_access_token, call, stage, i, keycloak_identities,
                   keycloak_id, result, status_code, response_json, auth_calls,
                   token_requests, token_responses>>

----------------------------------------------------------------------------
(* Responses to the authorized requests *)

\* the call ends: the response to its last request had `status`, its outcome is `r`
Finish(t, status, json, r) ==
    /\ Received(t, status, json)
    /\ result' = [result EXCEPT ![t] = r]
    /\ pc' = [pc EXCEPT ![t] = "idle"]

\* the call goes on to its next request `st`, at loop index `n`
Continue(t, status, json, st, n) ==
    /\ Received(t, status, json)
    /\ stage' = [stage EXCEPT ![t] = st]
    /\ i' = [i EXCEPT ![t] = n]
    /\ pc' = [pc EXCEPT ![t] = "auth"]
    /\ UNCHANGED result

\* `if not response.ok: raise KeycloakApiClientException(...)`
Fail(t, status) == Finish(t, status, <<>>, Raised(ErrorMsg(stage[t])))

Awaiting(t, st) == pc[t] = "wait" /\ stage[t] = st

UserByEmailResponse(t, D) ==
    /\ Awaiting(t, "users_email")
    /\ \E status \in Statuses, users \in D.user_lists :
        IF ~ResponseOk(status) THEN Fail(t, status)
        ELSE LET user_data == _get_user_by_email(users, call[t].email)
             IN  IF Len(user_data) = 0 THEN Finish(t, status, users, Returned(<<>>))
                 ELSE Finish(t, status, users,
                             Returned(<<read_keycloak_user_factory(user_data[1])>>))
    /\ UNCHANGED <<admin_user_access_token, call, stage, i, keycloak_identities,
                   keycloak_id, log, auth_calls, token_requests, token_responses>>

UserByIdResponse(t, D) ==
    /\ Awaiting(t, "user_id")
    /\ \E status \in Statuses, user \in D.user_records :
        IF status = NOT_FOUND THEN Finish(t, status, <<>>, Returned(<<>>))
        ELSE IF ~ResponseOk(status) THEN Fail(t, status)
        ELSE Finish(t, status, user, Returned(<<read_keycloak_user_factory(user)>>))
    /\ UNCHANGED <<admin_user_access_token, call, stage, i, keycloak_identities,
                   keycloak_id, log, auth_calls, token_requests, token_responses>>

SearchResponse(t, D) ==
    /\ Awaiting(t, "search")
    /\ \E status \in Statuses, users \in D.user_lists :
        IF ~ResponseOk(status) THEN Fail(t, status)
        ELSE Finish(t, status, users,
                    Returned([k \in 1..Len(users) |-> read_keycloak_user_factory(users[k])]))
    /\ UNCHANGED <<admin_user_access_token, call, stage, i, keycloak_identities,
                   keycloak_id, log, auth_calls, token_requests, token_responses>>

ExchangeResponse(t) ==
    /\ Awaiting(t, "exchange")
    /\ \E status \in Statuses, data \in [access_token : {"ua"}, refresh_token : {"ur"}] :
        IF ~ResponseOk(status) THEN Fail(t, status)
        ELSE Finish(t, status, data,
                    Returned(<<[access_token  |-> data.access_token,
                                refresh_token |-> data.refresh_token]>>))
    /\ UNCHANGED <<admin_user_access_token, call, stage, i, keycloak_identities,
                   keycloak_id, log, auth_calls, token_requests, token_responses>>

\* what the public operation returns once its requests are done
ReturnValue(t, id) ==
    IF call[t].name = "register_user" THEN Returned(<<id>>) ELSE Returned(<<>>)

\* variant of Reconciles: the reconciler is called after every create or update
ReconcilesAlways(write_keycloak_user) == TRUE

\* `if write_keycloak_user.federated_identities:` the reconciler is called
Reconciles(write_keycloak_user) == Len(write_keycloak_user.federated_identities) > 0

CreateResponse(t, D) ==
    /\ Awaiting(t, "create")
    /\ \E status \in Statuses, location \in D.new_ids :
        IF ~ResponseOk(status)
        THEN Fail(t, status) /\ UNCHANGED <<stage, i, keycloak_id>>
        ELSE /\ keycloak_id' = [keycloak_id EXCEPT ![t] = location]
             /\ IF Reconciles(call[t].user[1])
                THEN Continue(t, status, <<>>, "identities", 0)
                ELSE Finish(t, status, <<>>, ReturnValue(t, location))
                     /\ UNCHANGED <<stage, i>>
    /\ UNCHANGED <<admin_user_access_token, call, keycloak_identities, log,
                   auth_calls, token_requests, token_responses>>

UpdateResponse(t) ==
    /\ Awaiting(t, "update")
    /\ \E status \in Statuses :
        IF ~ResponseOk(status)
        THEN Fail(t, status) /\ UNCHANGED <<stage, i>>
        ELSE IF Reconciles(call[t].user[1])
             THEN Continue(t, status, <<>>, "identities", 0)
             ELSE Finish(t, status, <<>>, ReturnValue(t, keycloak_id[t]))
                  /\ UNCHANGED <<stage, i>>
    /\ UNCHANGED <<admin_user_access_token, call, keycloak_identities, keycloak_id,
                   log, auth_calls, token_requests, token_responses>>

\* the reconciler's loop from index `from`: the links that fail the test are
\* passed over, the first that passes is upserted, the end returns
Loop(t, status, json, identities, from) ==
    LET federated_identities == call[t].user[1].federated_identities
        n == NextUpsert(federated_identities, identities, from)
    IN  IF n > Len(federated_identities)
        THEN Finish(t, status, json, ReturnValue(t, keycloak_id[t])) /\ UNCHANGED <<stage, i>>
        ELSE Continue(t, status, json, "upsert", n)

\* _get_user_identities and the dict built from its result
IdentitiesResponse(t) ==
    /\ Awaiting(t, "identities")
    /\ \E status \in Statuses, body \in IdentityBodies :
        IF ~ResponseOk(status)
        THEN Fail(t, status) /\ UNCHANGED <<stage, i, keycloak_identities>>
        ELSE LET identities == {x.identityProvider : x \in body}
             IN  /\ keycloak_identities' = [keycloak_identities EXCEPT ![t] = identities]
                 /\ Loop(t, status, body, identities, 1)
    /\ UNCHANGED <<admin_user_access_token, call, keycloak_id, log,
                   auth_calls, token_requests, token_responses>>

UpsertResponse(t) ==
    /\ Awaiting(t, "upsert")
    /\ \E status \in Statuses :
        IF ~ResponseOk(status)
        THEN Fail(t, status) /\ UNCHANGED <<stage, i>>
        ELSE Loop(t, status, <<>>, keycloak_identities[t], i[t] + 1)
    /\ UNCHANGED <<admin_user_access_token, call, keycloak_identities, keycloak_id,
                   log, auth_calls, token_requests, token_responses>>

----------------------------------------------------------------------------
(* Specifications *)

\* one caller uses the instance: its calls follow one another
Next ==
    \/ get_keycloak_user(1, SeqDomain)
    \/ register_user(1, SeqDomain)
    \/ update_user(1, SeqDomain)
    \/ get_user_tokens(1, SeqDomain)
    \/ search_users(1, SeqDomain)
    \/ _get_api_admin_oidc_token(1)
    \/ TokenResponse(1)
    \/ TokenReturn(1)
    \/ UserByEmailResponse(1, SeqDomain)
    \/ UserByIdResponse(1, SeqDomain)
    \/ SearchResponse(1, SeqDomain)
    \/ ExchangeResponse(1)
    \/ CreateResponse(1, SeqDomain)
    \/ UpdateResponse(1)
    \/ IdentitiesResponse(1)
    \/ UpsertResponse(1)

Spec == Init /\ [][Next]_vars

\* the instance is shared: the callers' steps interleave
ConcNext ==
    \E t \in Threads :
        \/ get_keycloak_user(t, ConcDomain)
        \/ register_user(t, ConcDomain)
        \/ update_user(t, ConcDomain)
        \/ get_user_tokens(t, ConcDomain)
        \/ search_users(t, ConcDomain)
        \/ _get_api_admin_oidc_token(t)
        \/ TokenResponse(t)
        \/ TokenReturn(t)
        \/ UserByEmailResponse(t, ConcDomain)
        \/ UserByIdResponse(t, ConcDomain)
        \/ SearchResponse(t, ConcDomain)
        \/ ExchangeResponse(t)
        \/ CreateResponse(t, ConcDomain)
        \/ UpdateResponse(t)
        \/ IdentitiesResponse(t)
        \/ UpsertResponse(t)

ConcSpec == Init /\ [][ConcNext]_vars

----------------------------------------------------------------------------
(* Properties.  Under Spec the caller is 1.  A status below 400 is written   *)
(* out as such, so that no property rests on ResponseOk.                     *)

Idle(t) == pc[t] = "idle"

\* the last request the caller sent, and the status of the response to it
\* (NoStatus while it is in flight)
LastStatus(t) == IF pc[t] \in {"wait", "token_wait"} THEN NoStatus ELSE status_code[t]

LastKind(t) == IF Len(log[t]) = 0 THEN "none" ELSE log[t][Len(log[t])].kind

\* the caller's requests other than the password grant, in order
Authorized(t) == SelectSeq(log[t], LAMBDA e : e.kind /= "token")

Upserts(t) == SelectSeq(log[t], LAMBDA e : e.kind = "upsert")

DesiredLinks(t) == call[t].user[1].federated_identities

\* the desired links, in list order, whose provider is among `identities`
PresentLinks(links, identities) ==
    SelectSeq(links, LAMBDA l : l.provider_name \in identities)

UpsertBody(link) ==
    [identityProvider |-> link.provider_name, userId |-> link.user_id,
     userName |-> link.user_name]

Writes(t) == call[t].name \in {"register_user", "update_user"}

Given(x) == x /= None /\ x /= ""

----------------------------------------------------------------------------
\* C1, as stated: once two authenticated operations have been called and are
\* over, the instance has sent exactly one password-grant request.
C1_ExactlyOneTokenRequest ==
    (auth_calls = 2 /\ Idle(1)) => token_requests = 1

\* C1, amended: if the first password-grant request succeeded, exactly one was
\* ever sent, however many operations followed; only the last password-grant
\* response can be a success (a request is sent only while none has succeeded);
\* and no operation sends more than one.
C1_OneTokenRequestOnceAcquired ==
    /\ (Len(token_responses) > 0 /\ token_responses[1] < 400) => token_requests = 1
    /\ \A k \in 1..(Len(token_responses) - 1) : token_responses[k] >= 400
    /\ token_requests <= auth_calls
    /\ Len(SelectSeq(log[1], LAMBDA e : e.kind = "token")) <= 1

\* two operations are over, the first acquired the token, the second sent no
\* password-grant request and returned
C1_Witness ==
    /\ auth_calls = 2 /\ Idle(1)
    /\ token_requests = 1 /\ token_responses = <<200>>
    /\ Len(log[1]) > 0 /\ \A k \in 1..Len(log[1]) : log[1][k].kind /= "token"
    /\ result[1].outcome = "returned"

----------------------------------------------------------------------------
\* C2, as stated: with the instance shared by concurrent callers, as long as no
\* password-grant request has failed at most one is sent, and all authorized
\* requests carry the same token.
C2_NoDuplicateTokenAcquisition ==
    /\ (\A k \in 1..Len(token_responses) : token_responses[k] < 400) => token_requests <= 1
    /\ \A t, u \in Threads :
         \A k \in 1..Len(log[t]), m \in 1..Len(log[u]) :
            (log[t][k].kind \notin {"token", "exchange"} /\ log[u][m].kind \notin {"token", "exchange"})
                => log[t][k].auth = log[u][m].auth

----------------------------------------------------------------------------
\* C3, as stated: a get_keycloak_user call that is not given exactly one of
\* email and keycloak_id raises the usage error and sends no request.
C3_UsageErrorUnlessExactlyOne ==
    (call[1].name = "get_keycloak_user"
        /\ (Given(call[1].email) <=> Given(call[1].keycloak_id)))
    => (Idle(1) /\ result[1] = Raised(UsageMsg) /\ log[1] = <<>>)

\* C3, amended: given neither, the call raises the usage error and sends no
\* request at all; given an email (with or without an id) it does not raise the
\* usage error and looks up by email only; given only an id it looks up by id.
C3_UsageErrorIffNeither ==
    call[1].name = "get_keycloak_user" =>
        /\ (~Given(call[1].email) /\ ~Given(call[1].keycloak_id))
            => (Idle(1) /\ result[1] = Raised(UsageMsg) /\ log[1] = <<>>)
        /\ Given(call[1].email)
            => /\ result[1].msg /= UsageMsg
               /\ \A k \in 1..Len(log[1]) : log[1][k].kind \in {"token", "users_email"}
        /\ (~Given(call[1].email) /\ Given(call[1].keycloak_id))
            => /\ result[1].msg /= UsageMsg
               /\ \A k \in 1..Len(log[1]) : log[1][k].kind \in {"token", "user_id"}

\* get_keycloak_user was called with neither argument on an instance that has
\* no token yet: usage error, nothing sent
C3_Witness ==
    /\ call[1].name = "get_keycloak_user"
    /\ call[1].email = None /\ call[1].keycloak_id = None
    /\ result[1] = Raised(UsageMsg) /\ log[1] = <<>>
    /\ token_requests = 0 /\ admin_user_access_token = None

----------------------------------------------------------------------------
\* C4: a lookup by email whose search succeeded returns the candidate of least
\* index whose email equals the requested one, and None when there is none.
C4_FirstExactEmailMatch ==
    (Idle(1) /\ LastKind(1) = "users_email" /\ LastStatus(1) \in 1..399) =>
        LET users == response_json[1]
            hits == {k \in 1..Len(users) : users[k].email = call[1].email}
        IN  /\ result[1].outcome = "returned"
            /\ IF hits = {} THEN result[1].value = <<>>
               ELSE \E k \in hits :
                      /\ \A m \in hits : k <= m
                      /\ result[1].value = << [keycloak_id |-> users[k].id,
                                               email |-> users[k].email] >>

\* the first candidate differs from the requested email in case only, the
\* second matches exactly and is the one returned
C4_Witness ==
    /\ Idle(1) /\ LastKind(1) = "users_email" /\ LastStatus(1) = 200
    /\ call[1].email = "a@x.com"
    /\ Len(response_json[1]) = 2
    /\ response_json[1][1] = [id |-> "U1", email |-> "A@x.com"]
    /\ response_json[1][2] = [id |-> "U2", email |-> "a@x.com"]
    /\ result[1].value = << [keycloak_id |-> "U2", email |-> "a@x.com"] >>

----------------------------------------------------------------------------
\* C5, as stated: a call goes on or returns on a 2xx response, returns None on
\* a 404 to the lookup by id, and raises on every other response.
C5_Only2xxSucceeds ==
    LastStatus(1) /= NoStatus =>
        IF 200 =< LastStatus(1) /\ LastStatus(1) < 300
        THEN result[1].outcome /= "raised"
        ELSE IF LastStatus(1) = 404 /\ LastKind(1) = "user_id"
        THEN Idle(1) /\ result[1] = Returned(<<>>)
        ELSE Idle(1) /\ result[1].outcome = "raised"

\* C5, amended: a call goes on or returns on every response with a status
\* below 400 (3xx included), returns None on a 404 to the lookup by id, and on
\* every other status from 400 on raises the client error of the request.
C5_StatusBelow400Succeeds ==
    LastStatus(1) /= NoStatus =>
        IF LastStatus(1) \in 1..399
        THEN /\ result[1].outcome /= "raised"
             /\ Idle(1) => result[1].outcome = "returned"
        ELSE IF LastStatus(1) = 404 /\ LastKind(1) = "user_id"
        THEN Idle(1) /\ result[1] = Returned(<<>>)
        ELSE /\ Idle(1) /\ result[1].outcome = "raised"
             /\ result[1].msg /= UsageMsg
             /\ result[1].msg = ErrorMsg(LastKind(1))

\* a 3xx response to the lookup by id: the call returned the user of the body
C5_Witness ==
    /\ Idle(1) /\ LastKind(1) = "user_id" /\ LastStatus(1) = 302
    /\ result[1].outcome = "returned" /\ Len(result[1].value) = 1

----------------------------------------------------------------------------
\* C6: every upsert sent is for a provider of the fetched identities, and a
\* reconciliation that went through without error sent exactly one upsert for
\* each desired link whose provider is among them (none when there are none).
C6_UpsertOnlyExistingProviders ==
    Writes(1) =>
        /\ \A k \in 1..Len(Upserts(1)) : Upserts(1)[k].provider \in keycloak_identities[1]
        /\ (Idle(1) /\ result[1].outcome = "returned" /\ Len(DesiredLinks(1)) > 0) =>
            LET present == PresentLinks(DesiredLinks(1), keycloak_identities[1])
            IN  /\ Len(Upserts(1)) = Len(present)
                /\ \A k \in 1..Len(present) : Upserts(1)[k].data = UpsertBody(present[k])
                /\ Len(SelectSeq(log[1], LAMBDA e : e.kind = "identities")) = 1
        /\ (LastKind(1) = "identities" /\ LastStatus(1) \in 1..399) =>
                keycloak_identities[1] = {x.identityProvider : x \in response_json[1]}
        /\ keycloak_identities[1] = {} => Len(Upserts(1)) = 0

C6_Witness ==
    /\ Writes(1) /\ Idle(1) /\ result[1].outcome = "returned"
    /\ keycloak_identities[1] = {"google"}
    /\ Len(DesiredLinks(1)) = 2
    /\ DesiredLinks(1)[1].provider_name = "google"
    /\ DesiredLinks(1)[2].provider_name = "facebook"
    /\ Len(Upserts(1)) = 1 /\ Upserts(1)[1].provider = "google"

----------------------------------------------------------------------------
\* C7: register_user sends the create request first; a create answered with an
\* error status raises and nothing else is sent; the identities are fetched
\* right after the create, and only for a request that carries links; an error
\* in the reconciliation raises without returning the id of the created user,
\* and no request other than create / fetch / upsert is ever sent.
C7_RegisterOrderAndPartialFailure ==
    call[1].name = "register_user" =>
        LET reqs == Authorized(1)
        IN  /\ \A k \in 1..Len(reqs) :
                 reqs[k].kind = (IF k = 1 THEN "create" ELSE IF k = 2 THEN "identities" ELSE "upsert")
            /\ Len(reqs) > 1 => (Len(DesiredLinks(1)) > 0 /\ keycloak_id[1] /= None)
            /\ \A k \in 2..Len(reqs) : reqs[k].id = keycloak_id[1]
            /\ (Idle(1) /\ LastKind(1) = "create" /\ LastStatus(1) >= 400) =>
                    (result[1] = Raised("Error while creating user") /\ keycloak_id[1] = None)
            /\ (Idle(1) /\ LastKind(1) = "create" /\ LastStatus(1) \in 1..399) =>
                    (Len(DesiredLinks(1)) = 0 /\ result[1] = Returned(<<keycloak_id[1]>>))
            /\ (Idle(1) /\ LastKind(1) \in {"identities", "upsert"} /\ LastStatus(1) >= 400) =>
                    /\ result[1].outcome = "raised" /\ result[1].value = <<>>
                    /\ keycloak_id[1] /= None
            /\ (result[1].outcome = "returned") => result[1].value = <<keycloak_id[1]>>

\* the user was created, an upsert of the reconciliation failed: the call
\* raised, the last request sent is the failed upsert
C7_Witness ==
    /\ call[1].name = "register_user" /\ Idle(1)
    /\ keycloak_id[1] = "U2"
    /\ LastKind(1) = "upsert" /\ LastStatus(1) = 500
    /\ result[1] = Raised("Error while creating identity for user")
    /\ Len(Authorized(1)) = 3

----------------------------------------------------------------------------
\* C8: the create and update requests carry the seven fixed fields and the
\* credentials chosen by priority: a non-empty raw password gives the plain
\* credential, also when a hashed one is set; otherwise a non-empty hashed
\* password gives the bcrypt credential; otherwise there is no credentials field.
C8_CredentialsByPriority ==
    \A k \in 1..Len(log[1]) :
        log[1][k].kind \in {"create", "update"} =>
            LET u == call[1].user[1]
                data == log[1][k].data
            IN  /\ DOMAIN data \ {"credentials"} =
                      {"username", "firstName", "lastName", "email", "enabled",
                       "emailVerified", "attributes"}
                /\ IF Given(u.raw_password)
                   THEN /\ "credentials" \in DOMAIN data
                        /\ data.credentials =
                             << [type |-> "password", value |-> u.raw_password,
                                 temporary |-> FALSE] >>
                   ELSE IF Given(u.hashed_password)
                   THEN /\ "credentials" \in DOMAIN data
                        /\ data.credentials =
                             << [hashedSaltedValue |-> u.hashed_password,
                                 algorithm |-> "bcrypt", hashIterations |-> 12,
                                 type |-> "password", temporary |-> FALSE] >>
                   ELSE "credentials" \notin DOMAIN data

\* an update whose request has both passwords set was sent with the plain credential
C8_Witness ==
    /\ call[1].name = "update_user" /\ LastKind(1) = "update"
    /\ call[1].user[1].raw_password = "secret" /\ call[1].user[1].hashed_password = "h"
    /\ log[1][Len(log[1])].data.credentials[1].value = "secret"

----------------------------------------------------------------------------
\* C9: the upserts sent so far are, in list order, a prefix of the desired links
\* whose provider is present; an error status to the fetch raises with no
\* upsert sent; an error status to an upsert raises, the upserts sent being
\* those of the links up to the failing one and none of a later link; no
\* request undoing an earlier upsert exists.
C9_UpsertsInOrderAbortOnError ==
    Writes(1) =>
        LET ups == Upserts(1)
            present == PresentLinks(DesiredLinks(1), keycloak_identities[1])
        IN  /\ Len(ups) <= Len(present)
            /\ \A k \in 1..Len(ups) : ups[k].data = UpsertBody(present[k])
            /\ (LastKind(1) = "upsert" /\ LastStatus(1) >= 400) =>
                    /\ Idle(1) /\ result[1] = Raised("Error while creating identity for user")
                    /\ ups = SubSeq(Authorized(1), 3, Len(Authorized(1)))
                    /\ Len(ups) = Len(PresentLinks(SubSeq(DesiredLinks(1), 1, i[1]),
                                                   keycloak_identities[1]))
            /\ (LastKind(1) = "identities" /\ LastStatus(1) >= 400) =>
                    /\ Idle(1) /\ result[1] = Raised("Error while retrieving identities of user")
                    /\ Len(ups) = 0
            /\ \A k \in 1..Len(log[1]) :
                    log[1][k].kind \in {"token", "create", "update", "identities", "upsert"}

\* both desired links are present, the upsert of the first failed: the call
\* raised and the second was never sent
C9_Witness ==
    /\ Writes(1) /\ Idle(1)
    /\ Len(DesiredLinks(1)) = 2
    /\ DesiredLinks(1)[1].provider_name = "facebook"
    /\ DesiredLinks(1)[2].provider_name = "google"
    /\ keycloak_identities[1] = {"google", "facebook"}
    /\ LastKind(1) = "upsert" /\ LastStatus(1) = 500
    /\ Len(Upserts(1)) = 1 /\ Upserts(1)[1].provider = "facebook"
    /\ result[1].outcome = "raised"

----------------------------------------------------------------------------
\* C10: in every step of a sequentially used instance, the cached token changes
\* only from None to the access_token of a password-grant response with a
\* status below 400; a password-grant response with an error status raises and
\* leaves the cache None; a password-grant request is sent only while the cache
\* is None; an error status to any other request (but the 404 of
\* the lookup by id) raises and ends the call with no request sent, no
\* password-grant request among them, and the cache as it was.
C10_TokenWriteOnce ==
    [][ /\ (admin_user_access_token' /= admin_user_access_token) =>
             /\ admin_user_access_token = None
             /\ pc[1] = "token_wait" /\ status_code'[1] < 400
             /\ admin_user_access_token' = response_json'[1].access_token
        /\ (token_requests' /= token_requests) => admin_user_access_token = None
        /\ (pc[1] = "token_wait" /\ pc'[1] /= "token_wait" /\ status_code'[1] >= 400) =>
             /\ admin_user_access_token = None /\ admin_user_access_token' = None
             /\ pc'[1] = "idle"
             /\ result'[1] = Raised("Error while obtaining api-admin access_token")
        /\ (pc[1] = "wait" /\ pc'[1] /= "wait" /\ status_code'[1] >= 400
                /\ ~(stage[1] = "user_id" /\ status_code'[1] = 404)) =>
             /\ pc'[1] = "idle" /\ result'[1].outcome = "raised"
             /\ log' = log /\ token_requests' = token_requests
             /\ admin_user_access_token' = admin_user_access_token
      ]_vars

\* the token was acquired by the first call; the second call's request was
\* rejected with 401: it raised, the cache still holds the token, and one
\* password-grant request was sent in all
C10_Witness ==
    /\ auth_calls = 2 /\ Idle(1)
    /\ admin_user_access_token \in Tokens
    /\ LastKind(1) = "search" /\ status_code[1] = 401
    /\ result[1].outcome = "raised"
    /\ Len(log[1]) = 1 /\ token_requests = 1

====
